---------------------------- MODULE Spec2Model ----------------------------
(***************************************************************************)
(* Model of Dyadic_Model/data_mod/csv_parser.py: extract_columns,          *)
(* get_file_length, find_sync_point and create_synced_data.                *)
(*                                                                         *)
(* A file is the sequence of its lines, a line the sequence of its cells   *)
(* (the text between the commas).  The file system maps a path to a file   *)
(* or to NoFile.  A path is a sequence of name pieces, so that str.replace *)
(* on it can be computed.  read_csv decodes the text of every column of a  *)
(* chunk to one dtype, and csv.writer / to_csv encode the decoded values   *)
(* back to text.                                                           *)
(***************************************************************************)
EXTENDS Integers, Sequences, FiniteSets, TLC

(***************************************************************************)
(* Bounds of the model.                                                    *)
(***************************************************************************)
\* rows read per chunk; stands for chunksize=10000 of the pd.read_csv calls
ChunkSize == 2
\* most data rows of file_1 / of file_2
MaxRowsA == 3
MaxRowsB == 2
\* most data rows of the input of extract_columns, and its largest chunksize
MaxRowsX == 3
MaxChunkX == 2

(***************************************************************************)
(* Cell text and the values read_csv decodes it to.                        *)
(***************************************************************************)
IntTexts == {"1", "7", "8"}
FloatTexts == {"1.0", "7.0", "8.0"}
\* text read_csv takes for a missing value (its default na_values)
NATexts == {"", "nan"}

\* the number a numeric text stands for
NumOf(t) ==
    CASE t \in {"1", "1.0"} -> 1
      [] t \in {"7", "7.0"} -> 7
      [] t \in {"8", "8.0"} -> 8
      [] OTHER -> 0

\* str() of an int64, and repr of a float64 holding a whole number
IntText(n) == CASE n = 1 -> "1" [] n = 7 -> "7" [] n = 8 -> "8" [] OTHER -> "0"
FloatText(n) == CASE n = 1 -> "1.0" [] n = 7 -> "7.0" [] n = 8 -> "8.0" [] OTHER -> "0.0"

IntVal(n) == [k |-> "int", n |-> n, s |-> ""]
FloatVal(n) == [k |-> "float", n |-> n, s |-> ""]
NaN == [k |-> "nan", n |-> 0, s |-> ""]
StrVal(t) == [k |-> "str", n |-> 0, s |-> t]

Min(a, b) == IF a < b THEN a ELSE b

\* the dtype read_csv infers for one column of one chunk, from its cells
ColKind(texts) ==
    IF \E i \in 1..Len(texts) : texts[i] \notin (IntTexts \cup FloatTexts \cup NATexts)
    THEN "object"
    ELSE IF \E i \in 1..Len(texts) : texts[i] \in (FloatTexts \cup NATexts)
         THEN "float"
         ELSE "int"

\* one cell decoded in a column of dtype kind
DecodeCell(kind, t) ==
    CASE kind = "int" -> IntVal(NumOf(t))
      [] kind = "float" -> IF t \in NATexts THEN NaN ELSE FloatVal(NumOf(t))
      [] OTHER -> IF t \in NATexts THEN NaN ELSE StrVal(t)

\* column c of the lines of a chunk
ColumnOf(lines, c) == [i \in 1..Len(lines) |-> lines[i][c]]

\* pd.read_csv of the lines of one chunk: every column decoded to its dtype
DecodeChunk(lines) ==
    [i \in 1..Len(lines) |->
        [c \in 1..Len(lines[i]) |-> DecodeCell(ColKind(ColumnOf(lines, c)), lines[i][c])]]

\* DataFrame.iterrows: a row as one Series; int64 and float64 columns together
\* give a float64 Series, an object column leaves every value as it is
RowSeries(row) ==
    IF (\A c \in 1..Len(row) : row[c].k \in {"int", "float", "nan"})
       /\ (\E c \in 1..Len(row) : row[c].k \in {"float", "nan"})
    THEN [c \in 1..Len(row) |-> IF row[c].k = "int" THEN FloatVal(row[c].n) ELSE row[c]]
    ELSE row

\* == of two decoded scalars
PyEq(a, b) ==
    \/ a.k \in {"int", "float"} /\ b.k \in {"int", "float"} /\ a.n = b.n
    \/ a.k = "str" /\ b.k = "str" /\ a.s = b.s

\* DataFrame.to_csv: a value's text (na_rep is '')
ToCsvCell(v) ==
    CASE v.k = "int" -> IntText(v.n)
      [] v.k = "float" -> FloatText(v.n)
      [] v.k = "nan" -> ""
      [] OTHER -> v.s

\* csv.writer.writerow: str() of a value
WriterCell(v) ==
    CASE v.k = "int" -> IntText(v.n)
      [] v.k = "float" -> FloatText(v.n)
      [] v.k = "nan" -> "nan"
      [] OTHER -> v.s

\* chunk.to_csv(path, mode='a', header=False, index=False): the lines appended
ToCsvLines(chunk) ==
    [i \in 1..Len(chunk) |-> [c \in 1..Len(chunk[i]) |-> ToCsvCell(chunk[i][c])]]

(***************************************************************************)
(* Files.                                                                  *)
(***************************************************************************)
NoFile == "NoFile"

\* the position of column name in a header
ColPos(header, name) == CHOOSE c \in 1..Len(header) : header[c] = name

\* the data lines of a file that read_csv(skiprows=range(1, skip + 1)) reads:
\* line 0 is the header, lines 1..skip are left out (none when skip < 1)
DataLines(file, skip) ==
    LET skipped == IF skip < 0 THEN 0 ELSE skip
    IN  IF Len(file) <= skipped + 1 THEN <<>> ELSE SubSeq(file, skipped + 2, Len(file))

\* the k-th chunk (k = 1, 2, ...) of chunksize data lines
ChunkLines(data, k, chunksize) ==
    SubSeq(data, (k - 1) * chunksize + 1, Min(k * chunksize, Len(data)))

\* get_file_length: the lines of the file, minus one for the header
get_file_length(file) == Len(file) - 1


\* (a variant: the file opened without being emptied, as 'a' does)
OpenAppend(fsys, path) == fsys
\* open(path, 'w'): the file exists and is empty
OpenW(fsys, path) == [fsys EXCEPT ![path] = <<>>]

\* lines written at the end of the file at path (by csv.writer or by to_csv in mode 'a')
AppendLines(fsys, path, lines) ==
    [fsys EXCEPT ![path] = (IF @ = NoFile THEN <<>> ELSE @) \o lines]

(***************************************************************************)
(* Paths.  A path is the sequence of its pieces; only the piece ".csv"     *)
(* holds the text '.csv'.                                                  *)
(***************************************************************************)
RECURSIVE str_replace(_)
\* path.replace('.csv', '-sync.csv'): every '.csv' of the path, wherever it is
str_replace(path) ==
    IF path = <<>> THEN <<>>
    ELSE (IF Head(path) = ".csv" THEN <<"-sync", ".csv">> ELSE <<Head(path)>>)
         \o str_replace(Tail(path))

\* the paths create_synced_data is called with
InputPaths ==
    { <<"a", ".csv">>, <<"b", ".csv">>, <<"a", "-sync", ".csv">>, <<"a", ".txt">> }

Paths == InputPaths \cup { str_replace(p) : p \in InputPaths }

(***************************************************************************)
(* find_sync_point                                                         *)
(***************************************************************************)
\* pd.read_csv(file_2, usecols=[sync_column]).iloc[0][sync_column]: the column is
\* decoded over the whole file, and its first value taken
sync_value_of(file, column) ==
    LET texts == ColumnOf(DataLines(file, 0), ColPos(file[1], column))
    IN  DecodeCell(ColKind(texts), texts[1])

\* .iloc[0] of a frame without rows raises IndexError
iloc0_raises(file) == DataLines(file, 0) = <<>>

\* (a variant: the index starting again at 0 in every chunk)
IndexPerChunk(k) == 0
\* the index label of the first row of the k-th chunk: the RangeIndex of a
\* chunked read goes on from chunk to chunk
ChunkIndexBase(k) == (k - 1) * ChunkSize

RECURSIVE ScanRows(_, _, _, _, _)
\* for index, row in chunk.iterrows(): if row[sync_column] == sync_value: return index
ScanRows(chunk, i, base, c, value) ==
    IF i > Len(chunk) THEN -1
    ELSE IF PyEq(RowSeries(chunk[i])[c], value) THEN base + (i - 1)
         ELSE ScanRows(chunk, i + 1, base, c, value)

RECURSIVE ScanChunks(_, _, _, _)
\* for chunk in pd.read_csv(file_1, chunksize=10000): ...; return -1 after the loop
ScanChunks(data, k, c, value) ==
    IF (k - 1) * ChunkSize >= Len(data) THEN -1
    ELSE LET found == ScanRows(DecodeChunk(ChunkLines(data, k, ChunkSize)), 1,
                               ChunkIndexBase(k), c, value)
         IN  IF found # -1 THEN found ELSE ScanChunks(data, k + 1, c, value)

find_sync_point(fileA, fileB, column) ==
    ScanChunks(DataLines(fileA, 0), 1, ColPos(fileA[1], column),
               sync_value_of(fileB, column))

(***************************************************************************)
(* State.                                                                  *)
(***************************************************************************)
VARIABLES
    fs,           \* the file system: path -> file or NoFile
    file_1,       \* arguments of create_synced_data
    file_2,
    sync_column,
    pc,           \* where create_synced_data is
    sync_point,   \* its local sync_point ("none" before it is set)
    chunk_no,     \* the chunk the running read_csv loop reads next
    printed,      \* what this call has printed
    run,          \* 1 in the first call of create_synced_data, 2 in the second
    fs_start,     \* the file system when this call began
    prev_start,   \* the file system when the call before began
    prev_end,     \* the file system when the call before ended
    x_in,         \* extract_columns: the input file
    x_out,        \* extract_columns: the file at output_file
    x_cols,       \* extract_columns: columns_to_extract
    x_chunksize,  \* extract_columns: chunksize
    x_pc,         \* where extract_columns is
    x_chunk,      \* the chunk its read_csv loop reads next
    x_out_start   \* the file at output_file when extract_columns was called

vars == <<fs, file_1, file_2, sync_column, pc, sync_point, chunk_no, printed, run,
          fs_start, prev_start, prev_end, x_in, x_out, x_cols, x_chunksize, x_pc,
          x_chunk, x_out_start>>

sync_vars == <<fs, file_1, file_2, sync_column, pc, sync_point, chunk_no, printed,
               run, fs_start, prev_start, prev_end>>
x_vars == <<x_in, x_out, x_cols, x_chunksize, x_pc, x_chunk, x_out_start>>

file_1_mod == str_replace(file_1)
file_2_mod == str_replace(file_2)

(***************************************************************************)
(* The files create_synced_data is called on.  Both have the columns "t"   *)
(* and "q", file_2 in the other order; "t" is the sync column.             *)
(***************************************************************************)
HeaderA == <<"t", "q">>
HeaderB == <<"q", "t">>
SyncTexts == {"7", "8", ""}
OtherTexts == {"1"}

\* the rows under a header: one cell for each of its columns
RowsUnder(header, syncTexts, otherTexts) ==
    { row \in [1..Len(header) -> syncTexts \cup otherTexts] :
        \A c \in 1..Len(header) :
            row[c] \in (IF header[c] = "t" THEN syncTexts ELSE otherTexts) }

\* the files with that header and at most maxRows data rows
FilesUnder(header, maxRows, syncTexts, otherTexts) ==
    UNION { { <<header>> \o rows :
                rows \in [1..n -> RowsUnder(header, syncTexts, otherTexts)] } :
            n \in 0..maxRows }

XIdle ==
    /\ x_in = <<>>
    /\ x_out = NoFile
    /\ x_cols = <<>>
    /\ x_chunksize = 1
    /\ x_pc = "idle"
    /\ x_chunk = 1
    /\ x_out_start = NoFile

Init ==
    /\ file_1 \in InputPaths
    /\ file_2 \in InputPaths \ {file_1}
    /\ sync_column = "t"
    /\ \E a \in FilesUnder(HeaderA, MaxRowsA, SyncTexts, OtherTexts),
          b \in FilesUnder(HeaderB, MaxRowsB, SyncTexts, OtherTexts) :
          fs = [p \in Paths |-> IF p = file_1 THEN a ELSE IF p = file_2 THEN b ELSE NoFile]
    /\ pc = "call"
    /\ sync_point = "none"
    /\ chunk_no = 1
    /\ printed = {}
    /\ run = 1
    /\ fs_start = fs
    /\ prev_start = fs
    /\ prev_end = fs
    /\ XIdle

(***************************************************************************)
(* create_synced_data                                                      *)
(***************************************************************************)
\* (a variant: the check of the sentinel left out)
NeverNotFound(sp) == FALSE
\* if sync_point == -1: return
sync_not_found(sp) == sp = -1

\* sync_point = find_sync_point(file_1, file_2, sync_column), and the return
\* when it is -1
Locate ==
    /\ pc = "call"
    /\ IF iloc0_raises(fs[file_2])
       THEN /\ pc' = "raised"
            /\ UNCHANGED <<sync_point, printed>>
       ELSE LET sp == find_sync_point(fs[file_1], fs[file_2], sync_column)
            IN  /\ sync_point' = sp
                /\ IF sp = -1
                   THEN printed' = printed \cup {"Sync value not found"}
                   ELSE UNCHANGED printed
                /\ IF sync_not_found(sp)
                   THEN /\ pc' = "returned"
                   ELSE /\ pc' = "header_1"
    /\ UNCHANGED <<fs, file_1, file_2, sync_column, chunk_no, run, fs_start,
                   prev_start, prev_end, x_vars>>

\* print("Sync point found ..."), header_1 read from file_1, and the header
\* written to a freshly opened file_1_mod
WriteHeader1 ==
    /\ pc = "header_1"
    /\ printed' = printed \cup {"Sync point found"}
    /\ LET header_1 == fs[file_1][1]
       IN  fs' = AppendLines(OpenW(fs, file_1_mod), file_1_mod, <<header_1>>)
    /\ pc' = "copy_1"
    /\ chunk_no' = 1
    /\ UNCHANGED <<file_1, file_2, sync_column, sync_point, run, fs_start,
                   prev_start, prev_end, x_vars>>

\* the lines of the next chunk of read_csv(path, chunksize, skiprows=range(1, skip + 1))
NextChunk(path, skip) == ChunkLines(DataLines(fs[path], skip), chunk_no, ChunkSize)

\* one turn of the loop over file_1: the chunk read, and appended to file_1_mod
CopyChunk1 ==
    /\ pc = "copy_1"
    /\ NextChunk(file_1, sync_point) # <<>>
    /\ fs' = AppendLines(fs, file_1_mod, ToCsvLines(DecodeChunk(NextChunk(file_1, sync_point))))
    /\ chunk_no' = chunk_no + 1
    /\ UNCHANGED <<file_1, file_2, sync_column, pc, sync_point, printed, run,
                   fs_start, prev_start, prev_end, x_vars>>

\* the loop over file_1 is over: header_2 read from file_2, and the header
\* written to a freshly opened file_2_mod
WriteHeader2 ==
    /\ pc = "copy_1"
    /\ NextChunk(file_1, sync_point) = <<>>
    /\ LET header_2 == fs[file_2][1]
       IN  fs' = AppendLines(OpenW(fs, file_2_mod), file_2_mod, <<header_2>>)
    /\ pc' = "copy_2"
    /\ chunk_no' = 1
    /\ UNCHANGED <<file_1, file_2, sync_column, sync_point, printed, run, fs_start,
                   prev_start, prev_end, x_vars>>

\* one turn of the loop over file_2: the chunk read, and appended to file_2_mod
CopyChunk2 ==
    /\ pc = "copy_2"
    /\ NextChunk(file_2, 0) # <<>>
    /\ fs' = AppendLines(fs, file_2_mod, ToCsvLines(DecodeChunk(NextChunk(file_2, 0))))
    /\ chunk_no' = chunk_no + 1
    /\ UNCHANGED <<file_1, file_2, sync_column, pc, sync_point, printed, run,
                   fs_start, prev_start, prev_end, x_vars>>

\* (a variant: success printed whatever the lengths)
AlwaysSame(fsys, path1, path2) == TRUE
\* if get_file_length(file_1_mod) == get_file_length(file_2_mod)
same_length(fsys, path1, path2) ==
    get_file_length(fsys[path1]) = get_file_length(fsys[path2])

\* the loop over file_2 is over: the lengths compared, and the function returns
Verify ==
    /\ pc = "copy_2"
    /\ NextChunk(file_2, 0) = <<>>
    /\ IF same_length(fs, file_1_mod, file_2_mod)
       THEN printed' = printed \cup {"Synced files created successfully"}
       ELSE UNCHANGED printed
    /\ pc' = "returned"
    /\ UNCHANGED <<fs, file_1, file_2, sync_column, sync_point, chunk_no, run,
                   fs_start, prev_start, prev_end, x_vars>>

\* create_synced_data is called a second time with the same arguments
CallAgain ==
    /\ pc \in {"returned", "raised"}
    /\ run = 1
    /\ run' = run + 1
    /\ pc' = "call"
    /\ sync_point' = "none"
    /\ chunk_no' = 1
    /\ printed' = {}
    /\ prev_start' = fs_start
    /\ prev_end' = fs
    /\ fs_start' = fs
    /\ UNCHANGED <<fs, file_1, file_2, sync_column, x_vars>>

Next ==
    \/ Locate
    \/ WriteHeader1
    \/ CopyChunk1
    \/ WriteHeader2
    \/ CopyChunk2
    \/ Verify
    \/ CallAgain

Spec == Init /\ [][Next]_vars

(***************************************************************************)
(* find_sync_point on its own, over more files: numbers written as floats, *)
(* and text that is no number.                                             *)
(***************************************************************************)
SyncTextsFind == {"7", "7.0", "8", "", "x"}

InitFind ==
    /\ file_1 = <<"a", ".csv">>
    /\ file_2 = <<"b", ".csv">>
    /\ sync_column = "t"
    /\ \E a \in FilesUnder(HeaderA, MaxRowsA, SyncTextsFind, OtherTexts),
          b \in FilesUnder(HeaderB, MaxRowsB, SyncTextsFind, OtherTexts) :
          fs = [p \in Paths |-> IF p = file_1 THEN a ELSE IF p = file_2 THEN b ELSE NoFile]
    /\ pc = "call"
    /\ sync_point = "none"
    /\ chunk_no = 1
    /\ printed = {}
    /\ run = 1
    /\ fs_start = fs
    /\ prev_start = fs
    /\ prev_end = fs
    /\ XIdle

NextFind == Locate

SpecFind == InitFind /\ [][NextFind]_vars

(***************************************************************************)
(* What the claims speak of.                                               *)
(***************************************************************************)
\* find_sync_point has returned in this call (sync_point is a number)
Located == pc \in {"header_1", "copy_1", "copy_2", "returned"}

\* create_synced_data has returned after it found a sync point
Completed == pc = "returned" /\ sync_point # -1

\* the two input files as they were when the call began
FileA == fs_start[file_1]
FileB == fs_start[file_2]

\* the data rows of a file: its lines but the first
DataRowCount(file) == Len(file) - 1

\* data row i (from 0) of a file
DataRow(file, i) == file[i + 2]

\* the value the scan sees in the sync column of data row i (from 0) of file:
\* the row is decoded together with the rows of its chunk, which are the rows
\* first, first + 1, ... with first the multiple of ChunkSize below i
SeenValue(file, i) ==
    LET first == i - (i % ChunkSize)
        count == Min(ChunkSize, DataRowCount(file) - first)
        chunk == DecodeChunk([j \in 1..count |-> DataRow(file, first + j - 1)])
    IN  RowSeries(chunk[i - first + 1])[ColPos(file[1], sync_column)]

\* data row i of file A holds the sync value of the first data row of file B
Matches(i) == PyEq(SeenValue(FileA, i), sync_value_of(FileB, sync_column))

\* the value a cell's text stands for, and two cells holding the same value
\* (the same number, the same text, or both missing)
CellValue(t) ==
    IF t \in NATexts THEN NaN
    ELSE IF t \in IntTexts \cup FloatTexts THEN FloatVal(NumOf(t)) ELSE StrVal(t)

SameValue(t, u) ==
    \/ t \in NATexts /\ u \in NATexts
    \/ PyEq(CellValue(t), CellValue(u))

\* two lines of as many cells, cell by cell of the same value
SameLine(l, m) ==
    /\ Len(l) = Len(m)
    /\ \A c \in 1..Len(l) : SameValue(l[c], m[c])

\* C1: find_sync_point returns the index, counted from 0 over the whole of file
\* A, of the first data row of A whose sync value equals that of B's first data
\* row, and returns -1 exactly when no data row of A does.
C1_FirstMatch ==
    Located =>
        /\ sync_point \in -1..(DataRowCount(FileA) - 1)
        /\ sync_point # -1 =>
              /\ Matches(sync_point)
              /\ \A j \in 0..(sync_point - 1) : ~Matches(j)
        /\ sync_point = -1 <=> \A i \in 0..(DataRowCount(FileA) - 1) : ~Matches(i)

\* the first match lies in the second chunk of file A
C1_Witness == Located /\ sync_point = ChunkSize

\* C2: when no data row of A holds B's first sync value, create_synced_data
\* returns with the file system as it found it (no output file created or
\* changed) and the failure printed, success not.
C2_NotFoundWritesNothing ==
    (Located /\ \A i \in 0..(DataRowCount(FileA) - 1) : ~Matches(i)) =>
        /\ pc = "returned"
        /\ fs = fs_start
        /\ "Sync value not found" \in printed
        /\ "Synced files created successfully" \notin printed

\* no row of a file A of more than one chunk matched, and the call has returned
C2_Witness ==
    /\ pc = "returned"
    /\ sync_point = -1
    /\ DataRowCount(FileA) >= ChunkSize + 1
    /\ fs[file_1_mod] = NoFile
    /\ fs[file_2_mod] = NoFile

\* the file at path holds the header of file and then, in their order and with
\* their values, the data rows from, from + 1, ... of file up to its last
HoldsRowsFrom(path, file, from) ==
    /\ fs[path] # NoFile
    /\ DataRowCount(fs[path]) = DataRowCount(file) - from
    /\ fs[path][1] = file[1]
    /\ \A i \in 0..(DataRowCount(fs[path]) - 1) :
          SameLine(DataRow(fs[path], i), DataRow(file, from + i))

\* neither output path is the path of an input file
FreshOutputs == {file_1_mod, file_2_mod} \cap {file_1, file_2} = {}

\* C3: once a sync point s is found and create_synced_data has returned, the A
\* output holds A's header and then exactly A's data rows s, s+1, ... in their
\* order, with the values they had.
C3_TrimmedA ==
    Completed => HoldsRowsFrom(file_1_mod, FileA, sync_point)

\* the same, for calls whose output paths are not input paths
C3_TrimmedA_FreshOutputs == FreshOutputs => C3_TrimmedA

\* C4 as stated (here for output paths that are not input paths): success is
\* printed only if the outputs have as many data rows, a warning is printed if
\* they have not, and both outputs stay on disk.
C4_WarnsOnMismatch ==
    (Completed /\ FreshOutputs) =>
        /\ "Synced files created successfully" \in printed
              => DataRowCount(fs[file_1_mod]) = DataRowCount(fs[file_2_mod])
        /\ DataRowCount(fs[file_1_mod]) # DataRowCount(fs[file_2_mod])
              => printed \ {"Sync point found", "Synced files created successfully"} # {}
        /\ fs[file_1_mod] # NoFile
        /\ fs[file_2_mod] # NoFile

\* C4, amended: success is printed exactly if the outputs have as many data
\* rows; if they have not, nothing more is printed than that the sync point was
\* found; both outputs stay on disk.
C4_SuccessIffSameLength ==
    Completed =>
        /\ "Synced files created successfully" \in printed
              <=> DataRowCount(fs[file_1_mod]) = DataRowCount(fs[file_2_mod])
        /\ DataRowCount(fs[file_1_mod]) # DataRowCount(fs[file_2_mod])
              => printed = {"Sync point found"}
        /\ fs[file_1_mod] # NoFile
        /\ fs[file_2_mod] # NoFile

\* the outputs differ in length, each with a data row, and the call has returned
C4_Witness ==
    /\ Completed
    /\ FreshOutputs
    /\ DataRowCount(fs[file_1_mod]) > DataRowCount(fs[file_2_mod])
    /\ DataRowCount(fs[file_2_mod]) > 0

\* C5: when create_synced_data has written its outputs and returned, each output
\* path is a path of neither input, and file A and file B hold what they held
\* when the call began.
C5_InputsUntouched ==
    Completed =>
        /\ FreshOutputs
        /\ fs[file_1] = fs_start[file_1]
        /\ fs[file_2] = fs_start[file_2]

\* the same, for calls whose output paths are not input paths
C5_InputsUntouched_FreshOutputs == FreshOutputs => C5_InputsUntouched

\* C6: once a sync point is found and create_synced_data has returned, the B
\* output holds B's header and then every data row of B in order, with the
\* values they had.
C6_FullCopyOfB ==
    Completed => HoldsRowsFrom(file_2_mod, FileB, 0)

\* the same, for calls whose output paths are not input paths
C6_FullCopyOfB_FreshOutputs == FreshOutputs => C6_FullCopyOfB

\* the B output is, text for text, file B
C6_SameTextAsB == (Completed /\ FreshOutputs) => fs[file_2_mod] = FileB

\* C9: a call of create_synced_data that began with the input files as the call
\* before it began with leaves, when it has returned, each '-sync' path with
\* exactly what the call before left there.
C9_SecondRunSameOutputs ==
    ( /\ run = 2
      /\ pc \in {"returned", "raised"}
      /\ fs_start[file_1] = prev_start[file_1]
      /\ fs_start[file_2] = prev_start[file_2] ) =>
        /\ fs[file_1_mod] = prev_end[file_1_mod]
        /\ fs[file_2_mod] = prev_end[file_2_mod]

\* a second call has returned, on unchanged inputs, after writing several rows
C9_Witness ==
    /\ run = 2
    /\ Completed
    /\ fs_start[file_1] = prev_start[file_1]
    /\ fs_start[file_2] = prev_start[file_2]
    /\ FreshOutputs
    /\ DataRowCount(fs[file_1_mod]) >= 2
    /\ DataRowCount(fs[file_2_mod]) >= 2

\* C10: once a sync point is found and create_synced_data has returned, the A
\* output has a data row, and its first data row holds in the sync column the
\* value that the first data row of the B output holds there.
C10_AlignedAtStart ==
    Completed =>
        /\ DataRowCount(fs[file_1_mod]) >= 1
        /\ DataRowCount(fs[file_2_mod]) >= 1
        /\ PyEq(CellValue(fs[file_1_mod][2][ColPos(fs[file_1_mod][1], sync_column)]),
                CellValue(fs[file_2_mod][2][ColPos(fs[file_2_mod][1], sync_column)]))

\* the same, for calls whose output paths are not input paths
C10_AlignedAtStart_FreshOutputs == FreshOutputs => C10_AlignedAtStart

(***************************************************************************)
(* extract_columns                                                         *)
(***************************************************************************)
\* the names asked for; "z" is no column of the input
ColumnNames == {"t", "q", "z"}

\* the lists of one or two different names to extract
ColumnLists ==
    { <<n>> : n \in ColumnNames }
    \cup { pair \in { <<n, m>> : n \in ColumnNames, m \in ColumnNames } : pair[1] # pair[2] }

InitX ==
    /\ x_in \in FilesUnder(HeaderA, MaxRowsX, {"7", "", "x"}, {"1", ""})
    /\ x_cols \in ColumnLists
    /\ x_chunksize \in 1..MaxChunkX
    /\ x_out \in {NoFile, << <<"old">>, <<"9">> >>}
    /\ x_out_start = x_out
    /\ x_pc = "call"
    /\ x_chunk = 1
    /\ file_1 = <<"a", ".csv">>
    /\ file_2 = <<"b", ".csv">>
    /\ sync_column = "t"
    /\ fs = [p \in Paths |-> NoFile]
    /\ pc = "idle"
    /\ sync_point = "none"
    /\ chunk_no = 1
    /\ printed = {}
    /\ run = 1
    /\ fs_start = fs
    /\ prev_start = fs
    /\ prev_end = fs

\* (a variant: the file opened and no header written before the read)
NoHeader(cols) == <<>>
\* writer.writerow(columns_to_extract) on the file just opened with 'w'
header_written(cols) == <<cols>>

\* with open(output_file, 'w') ...: writer.writerow(columns_to_extract).  What
\* is written is in the file when the with block is left, also by an exception.
XWriteHeader ==
    /\ x_pc = "call"
    /\ x_out' = header_written(x_cols)
    /\ x_pc' = "read_csv"
    /\ UNCHANGED <<x_in, x_cols, x_chunksize, x_chunk, x_out_start, sync_vars>>

\* read_csv(usecols=...) finds a name of usecols that is no column of the header
usecols_missing(header, cols) ==
    \E j \in 1..Len(cols) : \A c \in 1..Len(header) : header[c] # cols[j]

\* pd.read_csv(input_file, chunksize=chunksize, usecols=columns_to_extract) raises
XRaise ==
    /\ x_pc = "read_csv"
    /\ usecols_missing(x_in[1], x_cols)
    /\ x_pc' = "raised"
    /\ UNCHANGED <<x_in, x_out, x_cols, x_chunksize, x_chunk, x_out_start, sync_vars>>

\* the positions, in the order of the file, of the columns usecols keeps
UsedPositions(header, cols) ==
    { c \in 1..Len(header) : \E j \in 1..Len(cols) : cols[j] = header[c] }

RECURSIVE Project(_, _, _)
\* the cells of a line at the positions kept, from position c on, in file order
Project(line, keep, c) ==
    IF c > Len(line) THEN <<>>
    ELSE (IF c \in keep THEN <<line[c]>> ELSE <<>>) \o Project(line, keep, c + 1)

\* the lines of a chunk as read_csv(usecols=cols) decodes them: only the columns
\* kept are read, in the order they have in the file
UsecolsLines(lines, header, cols) ==
    [i \in 1..Len(lines) |-> Project(lines[i], UsedPositions(header, cols), 1)]

\* (a variant: the row written as read_csv gives it, in the file's order)
RowInFileOrder(row, usedHeader, cols) == row
\* extracted_row = [row[col] for col in columns_to_extract]
extracted_row(row, usedHeader, cols) ==
    [j \in 1..Len(cols) |-> row[ColPos(usedHeader, cols[j])]]

\* for _, row in chunk.iterrows(): writer.writerow(extracted_row), for a chunk
ExtractedLines(lines, header, cols) ==
    LET usedHeader == Project(header, UsedPositions(header, cols), 1)
        chunk == DecodeChunk(UsecolsLines(lines, header, cols))
    IN  [i \in 1..Len(chunk) |->
            LET written == extracted_row(RowSeries(chunk[i]), usedHeader, cols)
            IN  [j \in 1..Len(written) |-> WriterCell(written[j])]]

\* the lines of the next chunk of read_csv(input_file, chunksize=chunksize)
XNextChunk == ChunkLines(DataLines(x_in, 0), x_chunk, x_chunksize)

\* one turn of the loop over the chunks: every row of the chunk written
XChunk ==
    /\ x_pc = "read_csv"
    /\ ~usecols_missing(x_in[1], x_cols)
    /\ XNextChunk # <<>>
    /\ x_out' = x_out \o ExtractedLines(XNextChunk, x_in[1], x_cols)
    /\ x_chunk' = x_chunk + 1
    /\ UNCHANGED <<x_in, x_cols, x_chunksize, x_pc, x_out_start, sync_vars>>

\* the loop is over, and extract_columns returns
XReturn ==
    /\ x_pc = "read_csv"
    /\ ~usecols_missing(x_in[1], x_cols)
    /\ XNextChunk = <<>>
    /\ x_pc' = "returned"
    /\ UNCHANGED <<x_in, x_out, x_cols, x_chunksize, x_chunk, x_out_start, sync_vars>>

NextX ==
    \/ XWriteHeader
    \/ XRaise
    \/ XChunk
    \/ XReturn

SpecX == InitX /\ [][NextX]_vars

\* C7 as stated: when a requested column is missing and extract_columns has
\* failed, the output path holds what it held before the call.
C7_NothingWritten == x_pc = "raised" => x_out = x_out_start

\* C7, amended: when a requested column is missing, extract_columns fails, and
\* before any data row is written: the output path then holds the header row
\* of the requested columns and nothing else (what it held before is gone).
C7_OnlyHeaderWritten ==
    /\ x_pc = "raised" => x_out = <<x_cols>>
    /\ (x_pc # "call" /\ usecols_missing(x_in[1], x_cols)) =>
          /\ x_pc \in {"read_csv", "raised"}
          /\ x_out = <<x_cols>>

\* the call failed on an input that has data rows, over an older output
C7_Witness ==
    /\ x_pc = "raised"
    /\ DataRowCount(x_in) >= 2
    /\ x_out_start # NoFile
    /\ Len(x_cols) = 2

\* C8: for requested columns that are all in the header, extract_columns returns
\* with the output holding the requested names and then one row for each data
\* row of the input, in order, each of as many fields as names, the j-th
\* holding the value of the j-th requested column in that input row.
C8_ProjectionInOrder ==
    /\ x_pc = "raised" => usecols_missing(x_in[1], x_cols)
    /\ x_pc = "returned" =>
          /\ Len(x_out) = 1 + DataRowCount(x_in)
          /\ x_out[1] = x_cols
          /\ \A i \in 2..Len(x_out) :
                /\ Len(x_out[i]) = Len(x_cols)
                /\ \A j \in 1..Len(x_cols) :
                      SameValue(x_out[i][j], x_in[i][ColPos(x_in[1], x_cols[j])])

\* both columns extracted in the order opposite to the file's, over more than
\* one chunk, rows differing
C8_Witness ==
    /\ x_pc = "returned"
    /\ x_cols = <<"q", "t">>
    /\ DataRowCount(x_in) > x_chunksize
    /\ x_chunksize > 1
    /\ x_in[2] # x_in[3]

=============================================================================
